---- MODULE Spec2Model ----
(***************************************************************************)
(* Model of transform_geonames.py: main() walks the data directory, reads  *)
(* every recognized GeoNames file into a data frame, and add_triples()     *)
(* turns each row into a type triple plus one triple per non-NA property.  *)
(*                                                                         *)
(* The graph is an rdflib Graph: a SET of triples (adding a triple already *)
(* present changes nothing).  A cell of a decoded data frame is either NaN *)
(* (pandas' marker for an empty field) or a value with a string form.      *)
(***************************************************************************)
EXTENDS Integers, Sequences, FiniteSets, TLC

(* ------------------------------ bounds --------------------------------- *)

\* number of entries os.listdir may return
MaxFiles == 3
\* number of rows decoded over one run (all files together)
MaxRows == 2

(* ------------------------------ cells ---------------------------------- *)

\* pandas' missing value: what read_csv yields for an empty field
NaN == [na |-> TRUE, s |-> ""]

\* a decoded value whose string form is s
Val(s) == [na |-> FALSE, s |-> s]

\* faulty variant of notna: the guard is forgotten
notna_always(v) == TRUE

\* pd.notna(row[col])
notna(v) == ~v.na

\* f"{row[id_column]}": str() of the cell; str(float('nan')) is "nan"
Format(v) == IF v.na THEN "nan" ELSE v.s

\* Literal(row[col]): the literal carries the lexical form of the value
Literal(v) == Format(v)

(* --------------------------- namespace --------------------------------- *)

\* Namespace("http://example.org/geonames/") attribute access: EX.name
EX(name) == "http://example.org/geonames/" \o name

\* rdflib's RDF.type
RDF_type == "http://www.w3.org/1999/02/22-rdf-syntax-ns#type"

(* ------------------------- mapping rules ------------------------------- *)
\* Each process_* function is a call of add_triples with fixed arguments;
\* properties is the dict in insertion order, as <<property, column>> pairs.

process_admin1_codes ==
    [subject_class |-> EX("Admin1Code"), subject_prefix |-> EX("admin1Code"),
     properties |-> << <<EX("code"), "code">>, <<EX("name"), "name">>,
                       <<EX("name_ascii"), "name_ascii">>,
                       <<EX("geonameid"), "geonameid">> >>,
     id_column |-> "code"]

\* faulty variant of process_admin2_codes: the prefix is copied from admin1
process_admin2_codes_copied ==
    [subject_class |-> EX("Admin2Code"), subject_prefix |-> EX("admin1Code"),
     properties |-> << <<EX("code"), "code">>, <<EX("name"), "name">>,
                       <<EX("asciiname"), "asciiname">>,
                       <<EX("geonameid"), "geonameid">> >>,
     id_column |-> "code"]

process_admin2_codes ==
    [subject_class |-> EX("Admin2Code"), subject_prefix |-> EX("admin2Code"),
     properties |-> << <<EX("code"), "code">>, <<EX("name"), "name">>,
                       <<EX("asciiname"), "asciiname">>,
                       <<EX("geonameid"), "geonameid">> >>,
     id_column |-> "code"]

process_admin5_codes ==
    [subject_class |-> EX("Admin5Code"), subject_prefix |-> EX("admin5Code"),
     properties |-> << <<EX("geonameid"), "geonameid">>,
                       <<EX("adm5code"), "adm5code">> >>,
     id_column |-> "geonameid"]

process_alternate_names ==
    [subject_class |-> EX("AlternateName"), subject_prefix |-> EX("alternateName"),
     properties |-> << <<EX("alternateNameId"), "alternateNameId">>,
                       <<EX("geonameid"), "geonameid">>,
                       <<EX("isolanguage"), "isolanguage">>,
                       <<EX("alternate_name"), "alternate_name">> >>,
     id_column |-> "alternateNameId"]

process_cities ==
    [subject_class |-> EX("City"), subject_prefix |-> EX("city"),
     properties |-> << <<EX("geonameid"), "geonameid">>, <<EX("name"), "name">>,
                       <<EX("asciiname"), "asciiname">>,
                       <<EX("alternatenames"), "alternatenames">>,
                       <<EX("latitude"), "latitude">>,
                       <<EX("longitude"), "longitude">>,
                       <<EX("feature_class"), "feature_class">>,
                       <<EX("feature_code"), "feature_code">>,
                       <<EX("country_code"), "country_code">>,
                       <<EX("cc2"), "cc2">>,
                       <<EX("admin1_code"), "admin1_code">>,
                       <<EX("admin2_code"), "admin2_code">>,
                       <<EX("admin3_code"), "admin3_code">>,
                       <<EX("admin4_code"), "admin4_code">>,
                       <<EX("population"), "population">>,
                       <<EX("elevation"), "elevation">>,
                       <<EX("dem"), "dem">>, <<EX("timezone"), "timezone">>,
                       <<EX("modification_date"), "modification_date">> >>,
     id_column |-> "geonameid"]

\* faulty variant of process_country_info: the ISO property is left out
process_country_info_no_iso ==
    [subject_class |-> EX("CountryInfo"), subject_prefix |-> EX("countryInfo"),
     properties |-> << <<EX("iso3"), "ISO3">>,
                       <<EX("iso_numeric"), "ISO-Numeric">>,
                       <<EX("fips"), "fips">>, <<EX("country"), "Country">>,
                       <<EX("capital"), "Capital">>,
                       <<EX("area_in_sq_km"), "Area(in sq km)">>,
                       <<EX("population"), "Population">>,
                       <<EX("continent"), "Continent">>, <<EX("tld"), "tld">>,
                       <<EX("currency_code"), "CurrencyCode">>,
                       <<EX("currency_name"), "CurrencyName">>,
                       <<EX("phone"), "Phone">>,
                       <<EX("postal_code_format"), "Postal Code Format">> >>,
     id_column |-> "ISO"]

process_country_info ==
    [subject_class |-> EX("CountryInfo"), subject_prefix |-> EX("countryInfo"),
     properties |-> << <<EX("iso"), "ISO">>, <<EX("iso3"), "ISO3">>,
                       <<EX("iso_numeric"), "ISO-Numeric">>,
                       <<EX("fips"), "fips">>, <<EX("country"), "Country">>,
                       <<EX("capital"), "Capital">>,
                       <<EX("area_in_sq_km"), "Area(in sq km)">>,
                       <<EX("population"), "Population">>,
                       <<EX("continent"), "Continent">>, <<EX("tld"), "tld">>,
                       <<EX("currency_code"), "CurrencyCode">>,
                       <<EX("currency_name"), "CurrencyName">>,
                       <<EX("phone"), "Phone">>,
                       <<EX("postal_code_format"), "Postal Code Format">> >>,
     id_column |-> "ISO"]

process_feature_codes ==
    [subject_class |-> EX("FeatureCode"), subject_prefix |-> EX("featureCode"),
     properties |-> << <<EX("code"), "code">>, <<EX("name"), "name">>,
                       <<EX("description"), "description">> >>,
     id_column |-> "code"]

\* faulty variant of process_hierarchy: one subject per parent-child pair
process_hierarchy_per_child ==
    [subject_class |-> EX("Hierarchy"), subject_prefix |-> EX("hierarchy"),
     properties |-> << <<EX("parentId"), "parentId">>,
                       <<EX("childId"), "childId">>, <<EX("type"), "type">> >>,
     id_column |-> "childId"]

process_hierarchy ==
    [subject_class |-> EX("Hierarchy"), subject_prefix |-> EX("hierarchy"),
     properties |-> << <<EX("parentId"), "parentId">>,
                       <<EX("childId"), "childId">>, <<EX("type"), "type">> >>,
     id_column |-> "parentId"]

process_iso_language_codes ==
    [subject_class |-> EX("ISOLanguageCode"),
     subject_prefix |-> EX("isoLanguageCode"),
     properties |-> << <<EX("iso_639_3"), "ISO_639_3">>,
                       <<EX("iso_639_2"), "ISO_639_2">>,
                       <<EX("iso_639_1"), "ISO_639_1">>,
                       <<EX("language_name"), "Language_Name">> >>,
     id_column |-> "ISO_639_3"]

process_time_zones ==
    [subject_class |-> EX("TimeZone"), subject_prefix |-> EX("timeZone"),
     properties |-> << <<EX("country_code"), "CountryCode">>,
                       <<EX("timezone_id"), "TimeZoneId">>,
                       <<EX("gmt_offset"), "GMT_offset_1_Jan_2025">>,
                       <<EX("dst_offset"), "DST_offset_1_Jul_2025">>,
                       <<EX("raw_offset"), "rawOffset_independant_of_DST">> >>,
     id_column |-> "CountryCode"]

\* no add_triples call: the match statement had no matching case
NoRule ==
    [subject_class |-> "", subject_prefix |-> "", properties |-> << >>,
     id_column |-> ""]

(* --------------------------- schema catalog ---------------------------- *)

CityColumns ==
    <<"geonameid", "name", "asciiname", "alternatenames", "latitude",
      "longitude", "feature_class", "feature_code", "country_code", "cc2",
      "admin1_code", "admin2_code", "admin3_code", "admin4_code",
      "population", "elevation", "dem", "timezone", "modification_date">>

\* the entries of the file_columns dict literal
CatalogEntries ==
    ("admin1CodesASCII.txt" :> <<"code", "name", "name_ascii", "geonameid">>) @@
    ("admin2Codes.txt" :> <<"code", "name", "asciiname", "geonameid">>) @@
    ("adminCode5.txt" :> <<"geonameid", "adm5code">>) @@
    ("alternateNamesV2.txt" :>
        <<"alternateNameId", "geonameid", "isolanguage", "alternate_name",
          "isPreferredName", "isShortName", "isColloquial", "isHistoric",
          "from", "to">>) @@
    ("cities500.txt" :> CityColumns) @@
    ("cities1000.txt" :> CityColumns) @@
    ("cities5000.txt" :> CityColumns) @@
    ("cities15000.txt" :> CityColumns) @@
    ("countryInfo.txt" :>
        <<"ISO", "ISO3", "ISO-Numeric", "fips", "Country", "Capital",
          "Area(in sq km)", "Population", "Continent", "tld", "CurrencyCode",
          "CurrencyName", "Phone", "Postal Code Format">>) @@
    ("featureCodes_en.txt" :> <<"code", "name", "description">>) @@
    ("hierarchy.txt" :> <<"parentId", "childId", "type">>) @@
    ("iso-languagecodes.txt" :>
        <<"ISO_639_3", "ISO_639_2", "ISO_639_1", "Language_Name">>) @@
    ("timeZones.txt" :>
        <<"CountryCode", "TimeZoneId", "GMT_offset_1_Jan_2025",
          "DST_offset_1_Jul_2025", "rawOffset_independant_of_DST">>)

\* faulty variant of file_columns: readme.txt is given a schema
file_columns_readme ==
    ("readme.txt" :> <<"parentId", "childId", "type">>) @@ CatalogEntries

\* process_file's file_columns, the table "file_name in file_columns"
\* consults
file_columns == CatalogEntries

\* the match statement of process_file: which process_* call a name selects
Dispatch(name) ==
    CASE name = "admin1CodesASCII.txt" -> process_admin1_codes
      [] name = "admin2Codes.txt" -> process_admin2_codes
      [] name = "adminCode5.txt" -> process_admin5_codes
      [] name = "alternateNamesV2.txt" -> process_alternate_names
      [] name \in {"cities500.txt", "cities1000.txt", "cities5000.txt",
                   "cities15000.txt"} -> process_cities
      [] name = "countryInfo.txt" -> process_country_info
      [] name = "featureCodes_en.txt" -> process_feature_codes
      [] name = "hierarchy.txt" -> process_hierarchy
      [] name = "iso-languagecodes.txt" -> process_iso_language_codes
      [] name = "timeZones.txt" -> process_time_zones
      [] OTHER -> NoRule

\* col.replace(" ", "_") on a column name
ReplaceSpaces(col) ==
    CASE col = "Language Name" -> "Language_Name"
      [] col = "ISO 639 3" -> "ISO_639_3"
      [] col = "ISO 639 2" -> "ISO_639_2"
      [] col = "ISO 639 1" -> "ISO_639_1"
      [] OTHER -> col

\* faulty variant of DropFirst: the first row is kept
DropFirst_kept(rows) == rows

\* df.drop(0): the frame without the row labelled 0, its first row
DropFirst(rows) == SubSeq(rows, 2, Len(rows))

\* row[col]: the cell of a row under a column name
Cell(cols, row, col) == row[CHOOSE k \in 1..Len(cols) : cols[k] = col]

(* ------------------------ decoded input files -------------------------- *)

\* The names os.listdir may return: the thirteen of file_columns and two
\* that file_columns does not hold.
FileNames == DOMAIN file_columns \cup {"readme.txt", "cities.txt"}

\* The cells a field may decode to: a value, NaN (the field is empty) and a
\* whitespace-only value.
CellCycle == <<Val("x"), NaN, Val(" ")>>

\* A row of n cells: a in the first column (the identifier column of every
\* schema); the later columns run through CellCycle, starting at offset r.
PatternRow(n, a, r) ==
    [k \in 1..n |-> IF k = 1 THEN a ELSE CellCycle[((k + r) % 3) + 1]]

\* Rows every file may hold: each column after the first is seen with each
\* cell of CellCycle; the identifier is seen with two values and empty.
PatternRows(n) ==
    { PatternRow(n, Val("1"), 0),
      PatternRow(n, Val("2"), 1),
      PatternRow(n, NaN, 2) }

\* hierarchy.txt: two children of the parent 100
HierarchyRows ==
    { <<Val("100"), Val("200"), Val("ADM")>>,
      <<Val("100"), Val("300"), Val("ADM")>> }

\* countryInfo.txt: France, with five of the fourteen columns filled
FranceRow ==
    <<Val("FR"), NaN, NaN, NaN, Val("France"), Val("Paris"), NaN,
      Val("67000000"), NaN, NaN, NaN, NaN, NaN, Val("#####")>>

\* iso-languagecodes.txt: the header restated as a row
HeaderRow ==
    [k \in 1..4 |-> Val(file_columns["iso-languagecodes.txt"][k])]

\* The rows read_csv may decode from the file called name.
RowsOf(name) ==
    PatternRows(Len(file_columns[name])) \cup
    (CASE name = "hierarchy.txt" -> HierarchyRows
       [] name = "countryInfo.txt" -> {FranceRow}
       [] name = "iso-languagecodes.txt" -> {HeaderRow}
       [] OTHER -> {})

\* The frames pd.read_csv may return for the file called name, with at most
\* budget rows: header=None frames of the schema's width and at least one row
\* (a file without rows raises EmptyDataError instead).
FramesOf(name, budget) ==
    { [ncols |-> Len(file_columns[name]), rows |-> rs] :
        rs \in UNION { [1..m -> RowsOf(name)] : m \in 1..budget } }

\* A frame whose width is not the schema's: the file's first line has one
\* field more than the schema has columns.
WideFrame(name) ==
    [ncols |-> Len(file_columns[name]) + 1,
     rows |-> << [k \in 1..(Len(file_columns[name]) + 1) |-> Val("x")] >>]

NoFrame == [ncols |-> 0, rows |-> << >>]

(* ------------------------------ state ---------------------------------- *)

VARIABLES
    pc,         \* where the run is: "main", "rows", "props", "done", "aborted"
    g,          \* the rdflib Graph: a set of triples
    todo,       \* entries of os.listdir(DATA_FOLDER) the loop has not reached
    seen,       \* names the loop has reached (listdir names are distinct)
    file_name,  \* main's loop variable
    decoded,    \* process_file's df as pd.read_csv returned it
    df,         \* the rows add_triples iterates
    columns,    \* df.columns
    i,          \* iterrows position
    j,          \* position in properties.items()
    subject,    \* add_triples' subject
    err,        \* the exception that ended the run, or "none"
    nrows       \* rows decoded so far (bounds the run)

vars == <<pc, g, todo, seen, file_name, decoded, df, columns, i, j, subject,
          err, nrows>>

\* the arguments add_triples was called with
Rule == Dispatch(file_name)

Triple(s, p, o) == [s |-> s, p |-> p, o |-> o]

\* faulty variant of AddType: the type triple is not added
AddType_skipped(graph, subj, cls) == graph

\* g.add((subject, RDF.type, subject_class))
AddType(graph, subj, cls) == graph \cup {Triple(subj, RDF_type, cls)}

\* create_graph() and the start of main
Init ==
    /\ pc = "main"
    /\ g = {}
    /\ todo \in 0..MaxFiles
    /\ seen = {}
    /\ file_name = ""
    /\ decoded = NoFrame
    /\ df = << >>
    /\ columns = << >>
    /\ i = 0
    /\ j = 0
    /\ subject = ""
    /\ err = "none"
    /\ nrows = 0

\* process_file's frame is gone: it returned or an exception left it
LocalsGone ==
    /\ decoded' = NoFrame
    /\ df' = << >>
    /\ columns' = << >>
    /\ i' = 0
    /\ j' = 0
    /\ subject' = ""

\* An exception nothing catches: it leaves process_file and main.
Raise(e) ==
    /\ pc' = "aborted"
    /\ err' = e
    /\ file_name' = ""
    /\ LocalsGone
    /\ UNCHANGED <<g, nrows>>

\* The loop took the entry called name before the exception.
RaiseIn(name, e) ==
    /\ Raise(e)
    /\ todo' = todo - 1
    /\ seen' = seen \cup {name}

\* main's for loop takes the next directory entry
Reach(name) ==
    /\ pc = "main"
    /\ todo > 0
    /\ name \in FileNames \ seen

\* process_file, else branch: the name is not in file_columns
SkipFile ==
    \E name \in FileNames :
        /\ Reach(name)
        /\ name \notin DOMAIN file_columns
        /\ file_name' = name
        /\ todo' = todo - 1
        /\ seen' = seen \cup {name}
        /\ UNCHANGED <<pc, g, decoded, df, columns, i, j, subject, err, nrows>>

\* pd.read_csv on a file without a data line raises EmptyDataError
ReadEmpty ==
    \E name \in FileNames :
        /\ Reach(name)
        /\ name \in DOMAIN file_columns
        /\ RaiseIn(name, "EmptyDataError")

\* df.columns = file_columns[file_name] on a frame of another width raises
\* ValueError
ReadMismatch ==
    \E name \in FileNames :
        /\ Reach(name)
        /\ name \in DOMAIN file_columns
        /\ WideFrame(name).ncols # Len(file_columns[name])
        /\ RaiseIn(name, "ValueError")

\* process_file up to the call of add_triples: read_csv, the column names,
\* the match statement with its pre-processing for iso-languagecodes.txt
ReadFile ==
    \E name \in FileNames :
        /\ Reach(name)
        /\ name \in DOMAIN file_columns
        /\ \E d \in FramesOf(name, MaxRows - nrows) :
            /\ d.ncols = Len(file_columns[name])
            /\ file_name' = name
            /\ todo' = todo - 1
            /\ seen' = seen \cup {name}
            /\ nrows' = nrows + Len(d.rows)
            /\ IF Dispatch(name) = NoRule
               THEN /\ LocalsGone
                    /\ UNCHANGED pc
               ELSE /\ pc' = "rows"
                    /\ decoded' = d
                    /\ df' = IF name = "iso-languagecodes.txt"
                             THEN DropFirst(d.rows) ELSE d.rows
                    /\ columns' = IF name = "iso-languagecodes.txt"
                                  THEN [k \in 1..d.ncols |->
                                          ReplaceSpaces(file_columns[name][k])]
                                  ELSE file_columns[name]
                    /\ i' = 1
                    /\ j' = 0
                    /\ subject' = ""
            /\ UNCHANGED <<g, err>>

\* add_triples, lines 25-26: the row's subject and its type triple
EmitType ==
    /\ pc = "rows"
    /\ i <= Len(df)
    /\ subject' = Rule.subject_prefix
                    \o Format(Cell(columns, df[i], Rule.id_column))
    /\ g' = AddType(g, subject', Rule.subject_class)
    /\ pc' = "props"
    /\ j' = 1
    /\ UNCHANGED <<todo, seen, file_name, decoded, df, columns, i, err, nrows>>

\* add_triples, lines 27-29: one pass of the loop over properties.items();
\* after the last property iterrows moves to the next row
EmitProp ==
    /\ pc = "props"
    /\ LET prop == Rule.properties[j][1]
           col == Rule.properties[j][2]
           v == Cell(columns, df[i], col)
       IN  g' = IF notna(v) THEN g \cup {Triple(subject, prop, Literal(v))}
                ELSE g
    /\ IF j = Len(Rule.properties)
       THEN pc' = "rows" /\ i' = i + 1 /\ j' = 0
       ELSE pc' = "props" /\ i' = i /\ j' = j + 1
    /\ UNCHANGED <<todo, seen, file_name, decoded, df, columns, subject, err,
                   nrows>>

\* add_triples has iterated every row: process_file returns to main
Return ==
    /\ pc = "rows"
    /\ i > Len(df)
    /\ pc' = "main"
    /\ LocalsGone
    /\ UNCHANGED <<g, todo, seen, file_name, err, nrows>>

\* g.serialize(...) after the loop
Serialize ==
    /\ pc = "main"
    /\ todo = 0
    /\ pc' = "done"
    /\ UNCHANGED <<g, todo, seen, file_name, decoded, df, columns, i, j,
                   subject, err, nrows>>

\* g.serialize(...) cannot write its destination
SerializeFails ==
    /\ pc = "main"
    /\ todo = 0
    /\ Raise("SerializationFailure")
    /\ UNCHANGED <<todo, seen>>

Next ==
    \/ SkipFile
    \/ ReadEmpty
    \/ ReadMismatch
    \/ ReadFile
    \/ EmitType
    \/ EmitProp
    \/ Return
    \/ Serialize
    \/ SerializeFails

Spec == Init /\ [][Next]_vars

(* ============================ properties =============================== *)

\* the thirteen recognized file names, as the specification lists them
ThirteenNames ==
    {"admin1CodesASCII.txt", "admin2Codes.txt", "adminCode5.txt",
     "alternateNamesV2.txt", "cities500.txt", "cities1000.txt",
     "cities5000.txt", "cities15000.txt", "countryInfo.txt",
     "featureCodes_en.txt", "hierarchy.txt", "iso-languagecodes.txt",
     "timeZones.txt"}

CityNames ==
    {"cities500.txt", "cities1000.txt", "cities5000.txt", "cities15000.txt"}

\* the EntityKind the specification associates with a recognized file name
KindOf(name) ==
    CASE name = "admin1CodesASCII.txt" -> "Admin1Code"
      [] name = "admin2Codes.txt" -> "Admin2Code"
      [] name = "adminCode5.txt" -> "Admin5Code"
      [] name = "alternateNamesV2.txt" -> "AlternateName"
      [] name \in CityNames -> "City"
      [] name = "countryInfo.txt" -> "CountryInfo"
      [] name = "featureCodes_en.txt" -> "FeatureCode"
      [] name = "hierarchy.txt" -> "Hierarchy"
      [] name = "iso-languagecodes.txt" -> "ISOLanguageCode"
      [] name = "timeZones.txt" -> "TimeZone"

NS == "http://example.org/geonames/"

InFile == pc \in {"rows", "props"}

\* add_triples has iterated every row of the current file
FileDone == pc = "rows" /\ i > Len(df)

\* the current file is the first entry the loop reached: the graph was empty
\* when process_file was called
FirstFile == seen = {file_name}

\* rows of df whose emission is complete
Emitted == IF InFile THEN 1..(i - 1) ELSE {}

\* rows of df whose emission has begun
Begun == IF pc = "props" THEN 1..i ELSE Emitted

IdCell(row) == Cell(columns, row, Rule.id_column)

\* the subject of a row: the entity prefix followed by the identifier's text
SubjectOf(row) ==
    Rule.subject_prefix \o (IF IdCell(row).na THEN "nan" ELSE IdCell(row).s)

TypeTriples == {t \in g : t.p = RDF_type}

PropertyTriples == {t \in g : t.p # RDF_type}

\* a decoded value that is whitespace only
Whitespace(v) == ~v.na /\ v.s \in {" ", "  "}

(* ------------------------------- C1 ------------------------------------ *)

\* C1 as stated: once a row has been emitted, the graph holds the property
\* triple of a (property, column) pair of the rule if and only if the row's
\* value in that column is present and not blank (not empty, not
\* whitespace-only).
C1_TripleIffNonBlank ==
    \A k \in Emitted : \A n \in 1..Len(Rule.properties) :
        LET v == Cell(columns, df[k], Rule.properties[n][2])
        IN  Triple(SubjectOf(df[k]), Rule.properties[n][1], Format(v)) \in g
                <=> (~v.na /\ ~Whitespace(v))

\* C1, amended: once a row has been emitted, the graph holds the property
\* triple of a (property, column) pair of the rule if and only if the row's
\* value in that column is not NaN (the field was not empty); a
\* whitespace-only value is present and has its triple.
C1_TripleIffNotNA ==
    \A k \in Emitted : \A n \in 1..Len(Rule.properties) :
        LET v == Cell(columns, df[k], Rule.properties[n][2])
        IN  Triple(SubjectOf(df[k]), Rule.properties[n][1], Format(v)) \in g
                <=> ~v.na

\* an emitted row with an empty column, a whitespace-only column and a
\* column holding a value
C1_Witness ==
    /\ file_name = "admin1CodesASCII.txt"
    /\ \E k \in Emitted : \E a, b, c \in 1..Len(Rule.properties) :
        /\ Cell(columns, df[k], Rule.properties[a][2]).na
        /\ Whitespace(Cell(columns, df[k], Rule.properties[b][2]))
        /\ Cell(columns, df[k], Rule.properties[c][2]) = Val("x")
        /\ Triple(SubjectOf(df[k]), Rule.properties[c][1], "x") \in g

(* ------------------------------- C2 ------------------------------------ *)

\* C2: when process_file has emitted a recognized file, every decoded row
\* whose identifier is present -- except a first row of
\* iso-languagecodes.txt that restates the header -- has its type triple
\* (prefix + identifier, rdf:type, the file's EntityKind) in the graph, and
\* that subject has no other type.
C2_EveryRowTyped ==
    FileDone =>
        \A k \in 1..Len(decoded.rows) :
            LET row == decoded.rows[k]
            IN  (/\ ~IdCell(row).na
                 /\ ~(/\ file_name = "iso-languagecodes.txt"
                      /\ k = 1
                      /\ row = HeaderRow))
                => {t \in TypeTriples : t.s = SubjectOf(row)}
                     = {Triple(SubjectOf(row), RDF_type, NS \o KindOf(file_name))}

(* ------------------------------- C3 ------------------------------------ *)

\* C3: a row whose identifier is absent fails with MissingIdentifier and
\* leaves no triple: the graph never holds a triple whose subject was built
\* from an absent identifier.
C3_MissingIdentifierFails ==
    \A k \in Begun :
        IdCell(df[k]).na => \A t \in g : t.s # SubjectOf(df[k])

(* ------------------------------- C4 ------------------------------------ *)

\* C4: a step in which the loop takes a file whose name is not one of the
\* thirteen leaves the graph as it was, reads no rows, raises no error, and
\* leaves main in its loop.
C4_UnrecognizedSkipped ==
    [][\A name \in seen' \ seen :
          name \notin ThirteenNames =>
              /\ g' = g
              /\ decoded' = NoFrame
              /\ nrows' = nrows
              /\ err' = "none"
              /\ pc' = "main"]_vars

\* an unrecognized file was skipped after a file that left triples, with an
\* entry still to come
C4_Witness ==
    /\ pc = "main"
    /\ file_name \in {"readme.txt", "cities.txt"}
    /\ g # {}
    /\ todo > 0

(* ------------------------------- C5 ------------------------------------ *)

\* C5: a failure other than SerializationFailure does not end the run: the
\* remaining files are still processed and serialization is still reached.
C5_FailureDoesNotEndRun ==
    (err # "none" /\ err # "SerializationFailure") => pc # "aborted"

(* ------------------------------- C6 ------------------------------------ *)

HierarchyExample ==
    /\ FileDone
    /\ FirstFile
    /\ file_name = "hierarchy.txt"
    /\ decoded.rows = << <<Val("100"), Val("200"), Val("ADM")>>,
                         <<Val("100"), Val("300"), Val("ADM")>> >>

FranceExample ==
    /\ FileDone
    /\ FirstFile
    /\ file_name = "countryInfo.txt"
    /\ decoded.rows = <<FranceRow>>

ExcludedProperties ==
    {NS \o "postal_code_regex", NS \o "languages", NS \o "neighbours",
     NS \o "equivalent_fips_code"}

\* no country subject has a triple for one of the five excluded columns
NoExcludedColumn ==
    \A t \in g :
        /\ t.p \notin ExcludedProperties
        /\ Triple(t.s, RDF_type, NS \o "CountryInfo") \in g
             => t.p # NS \o "geonameid"

HeaderExample ==
    /\ FileDone
    /\ FirstFile
    /\ file_name = "iso-languagecodes.txt"
    /\ decoded.rows[1] = HeaderRow

HeaderNames == {"ISO_639_3", "ISO_639_2", "ISO_639_1", "Language_Name"}

\* C8: when the first decoded row of iso-languagecodes.txt restates the
\* header, that row adds no triple (no subject built from it, no literal
\* taken from it, unless a later row restates the header again), and every
\* later row has its type triple and the triples of its values.
C8_HeaderRowExcluded ==
    HeaderExample =>
        /\ (\A k \in 2..Len(decoded.rows) : decoded.rows[k] # HeaderRow)
             => \A t \in g : /\ t.s # NS \o "isoLanguageCodeISO_639_3"
                             /\ t.o \notin HeaderNames
        /\ \A k \in 2..Len(decoded.rows) :
             /\ Triple(SubjectOf(decoded.rows[k]), RDF_type,
                       NS \o "ISOLanguageCode") \in g
             /\ \A n \in 1..4 :
                  ~decoded.rows[k][n].na
                    => \E t \in g : /\ t.s = SubjectOf(decoded.rows[k])
                                    /\ t.o = decoded.rows[k][n].s

\* the header row was followed by a data row, which left its triples
C8_Witness ==
    /\ HeaderExample
    /\ Len(decoded.rows) = 2
    /\ decoded.rows[2] # HeaderRow
    /\ g # {}

(* ------------------------------- C9 ------------------------------------ *)

\* identifier values: equal across kinds, and texts that continue a prefix
ProbeIds == {"nan", "1", "100", "FR", "Code", "Code1", "Info", "Name1", "y"}

\* for two recognized files of different kinds, no two identifiers give the
\* same subject
DistinctAcrossKinds ==
    \A n1, n2 \in ThirteenNames :
        KindOf(n1) # KindOf(n2) =>
            \A a, b \in ProbeIds :
                Dispatch(n1).subject_prefix \o a
                    # Dispatch(n2).subject_prefix \o b

\* two file names share a prefix exactly when they are the same name or
\* both city names
OnlyCitiesShare ==
    \A n1, n2 \in ThirteenNames :
        (Dispatch(n1).subject_prefix = Dispatch(n2).subject_prefix)
            <=> (n1 = n2 \/ (n1 \in CityNames /\ n2 \in CityNames))

\* C9: subjects of different EntityKinds never coincide: no subject of the
\* graph has two types, the prefixes keep equal or prefix-continuing
\* identifiers apart, and only the four city files share a prefix.
C9_KindsDisjoint ==
    /\ \A t, u \in TypeTriples : t.s = u.s => t.o = u.o
    /\ DistinctAcrossKinds
    /\ OnlyCitiesShare

\* two kinds met the same raw identifier and made two subjects of it
C9_Witness ==
    /\ Triple(NS \o "admin1Code1", RDF_type, NS \o "Admin1Code") \in g
    /\ Triple(NS \o "admin2Code1", RDF_type, NS \o "Admin2Code") \in g
    /\ Cardinality({t.s : t \in g}) = 2

(* ------------------------------- C10 ----------------------------------- *)

\* every subject of a property triple has a type triple
SubjectsTyped ==
    \A t \in PropertyTriples : \E u \in TypeTriples : u.s = t.s

\* C10: in every state, also in the middle of a row, every subject of a
\* property triple has a type triple, and no step removes a triple.
C10_TypedBeforeProperties ==
    /\ []SubjectsTyped
    /\ [][g \subseteq g']_vars

\* in the middle of a row: some of its property triples are in the graph,
\* others are still to come
C10_Witness ==
    /\ pc = "props"
    /\ j > 1
    /\ j < Len(Rule.properties)
    /\ \E t \in PropertyTriples : t.s = subject

====
